---- MODULE Spec2Model ----
(***************************************************************************)
(* The registration-approval workflow of src/Server.js, with the handlers  *)
(* that fill the users table it reads.  Every table is a variable; every   *)
(* HTTP handler is an action (a handler made of one query) or a chain of   *)
(* actions, one per awaited query (approve, reject), so that the queries   *)
(* of two calls in flight interleave exactly where the code awaits.        *)
(*                                                                         *)
(*   Spec       submit, list, register, approve, reject, one call at a time*)
(*   SpecAll    Spec with login and mark-as-read                           *)
(*   SpecConc   two approve or reject calls that overlap                   *)
(*   SpecReg    two register calls that overlap, statement by statement    *)
(*   SpecGuard  login and the routes behind authenticate                   *)
(***************************************************************************)
EXTENDS Integers, Sequences, FiniteSets, TLC

\* ------------------------------------------------------------ bounds
MaxRows == 3   \* rows of requests, students and notifications together

\* ------------------------------------------------------------ inputs
Handlers     == {1, 2}            \* calls that can be in flight or answered
StudentNames == {"s1"}
ParentNames  == {"p1"}
Emails       == {"e1", "e2"}      \* of the users
RequestEmails == {"e1"}           \* of the requests
Usernames    == {"u1"}
ClassIds     == {1}

VARIABLES
    users,          \* table users: a set of rows
    nextUserId,     \* AUTO_INCREMENT of users.user_id
    parents,        \* table parents: the parent_id of each row
    teachers,       \* table teachers: the teacher_id of each row
    requests,       \* table registration_requests, in request_id order
    students,       \* table students, in student_id order
    notifications,  \* table notifications, in notification_id order
    now,            \* the database clock, NOW()
    calls,          \* per handler slot: the call in flight or just answered
    documents,      \* table documents: the document_id of each row
    maxInFlight,    \* how many calls the clients keep open at once
    room            \* how many rows the workflow's tables have room for

tables == <<users, nextUserId, parents, teachers, requests, students, notifications,
            documents>>
vars   == <<users, nextUserId, parents, teachers, requests, students, notifications,
            documents, now, calls, maxInFlight, room>>

\* ------------------------------------------------------------ values
\* SQL NULL / JS undefined: a column or local is <<>> (no value) or <<v>>.
Null    == <<>>
Some(v) == <<v>>

\* JS truthiness of a string field of req.body: undefined (absent) and "" are falsy.
\* A slip: only an absent field counts as missing, an empty one passes.
FalsyStrAbsentOnly(body, k) == k \notin DOMAIN body

FalsyStr(body, k) == k \notin DOMAIN body \/ body[k] = ""
\* JS truthiness of a numeric field of req.body: undefined (absent) and 0 are falsy.
FalsyNum(body, k) == k \notin DOMAIN body \/ body[k] = 0

\* The workflow's tables hold room rows together; an insert into a full
\* database fails.
RowsInserted == Len(requests) + Len(students) + Len(notifications)
HasRoom == RowsInserted < room

\* History kept with a call for the properties: the tables as the call found them
\* (pre), the calls that were in flight when it began (during), and the statement
\* at which a storage failure ended it (at).  Of register's locals a call keeps
\* conn (none, held or released), userId (result.insertId) and, in tx, the rows its
\* transaction has written and not yet committed.
Snapshot ==
    [users |-> users, requests |-> requests, students |-> students,
     notifications |-> notifications, parents |-> parents, teachers |-> teachers,
     documents |-> documents]

IdleCall ==
    [op |-> "idle", pc |-> "idle", body |-> Null, id |-> 0, request |-> Null,
     parent |-> Null, res |-> Null, err |-> "none", pre |-> Null, during |-> {},
     at |-> "none", header |-> Null, user |-> Null,
     conn |-> "none", userId |-> 0, tx |-> Null]

\* res.status(s).json({ message: m })
Json(s, m) == Some([status |-> s, message |-> m])

\* A call may start in slot h: h is the first free slot and the clients have fewer
\* than maxInFlight calls open (an answered call stays open until Return).
CanStart(h) ==
    /\ calls[h].op = "idle"
    /\ \A g \in Handlers : calls[g].op = "idle" => h <= g
    /\ Cardinality({g \in Handlers : calls[g].op # "idle"}) < maxInFlight

\* NOW() as a submission reads it: the clock never runs backwards.  The only use
\* any statement makes of a timestamp is the order of requested_at, so the clock
\* counts the ticks that separate two submissions, from the first one on.
ClockReads == IF requests = <<>> THEN {now} ELSE {now, now + 1}

\* NOW() as an UPDATE stores it in processed_at: no statement reads the column, so
\* all that is kept of the time is that the column holds one.
Stamp == Some("NOW()")

InFlight == {g \in Handlers : calls[g].pc \notin {"idle", "done"}}

Answered(h, op, body, id, res, err) ==
    calls' = [calls EXCEPT ![h] =
                [IdleCall EXCEPT !.op = op, !.pc = "done", !.body = body, !.id = id,
                                 !.res = res, !.err = err, !.pre = Some(Snapshot),
                                 !.during = InFlight]]

\* The client reads the answer; the slot is free again.
Return(h) ==
    /\ calls[h].pc = "done"
    /\ calls' = [calls EXCEPT ![h] = IdleCall]
    /\ UNCHANGED <<tables, now, maxInFlight, room>>

\* ------------------------------------------------------------ submit
SubmitFields == {"student_name", "parent_name", "parent_email", "class_id"}

ValidSubmitBodies ==
    [student_name : StudentNames, parent_name : ParentNames,
     parent_email : RequestEmails, class_id : ClassIds]

SomeSubmitBody ==
    [student_name |-> "s1", parent_name |-> "p1", parent_email |-> "e1", class_id |-> 1]

Restrict(f, D) == [k \in D |-> f[k]]

\* req.body of POST /api/registration-request: every field given, or one of them
\* absent, or one of them empty ("" or 0).
SubmitBodies ==
    ValidSubmitBodies
    \cup {Restrict(SomeSubmitBody, SubmitFields \ {k}) : k \in SubmitFields}
    \cup {[SomeSubmitBody EXCEPT !.parent_email = ""]}
    \cup {[SomeSubmitBody EXCEPT !.class_id = 0]}

SubmitInvalid(body) ==
    \/ FalsyStr(body, "student_name")
    \/ FalsyStr(body, "parent_name")
    \/ FalsyStr(body, "parent_email")
    \/ FalsyNum(body, "class_id")

\* The columns of registration_requests the INSERT does not name take the table's
\* defaults: the next request_id, status pending, requested_at the current time,
\* processed_at NULL.
RequestDefaults(t) ==
    [request_id   |-> Len(requests) + 1,
     status       |-> "pending",
     requested_at |-> t,
     processed_at |-> Null]

\* The row INSERT INTO registration_requests stores.
NewRequestRow(body, t) ==
    [request_id   |-> RequestDefaults(t).request_id,
     student_name |-> body.student_name,
     parent_name  |-> body.parent_name,
     parent_email |-> body.parent_email,
     class_id     |-> body.class_id,
     status       |-> RequestDefaults(t).status,
     requested_at |-> RequestDefaults(t).requested_at,
     processed_at |-> RequestDefaults(t).processed_at]

\* A slip: the statement is sent twice.
SubmitInsertTwice(body, t) ==
    requests' = Append(Append(requests, NewRequestRow(body, t)),
                       [NewRequestRow(body, t) EXCEPT !.request_id = Len(requests) + 2])

SubmitInsert(body, t) == requests' = Append(requests, NewRequestRow(body, t))

Submit(h, body) ==
    /\ CanStart(h)
    /\ IF SubmitInvalid(body)
       THEN /\ Answered(h, "submit", Some(body), 0,
                        Json(400, "All required fields must be provided"), "none")
            /\ UNCHANGED <<tables, now>>
       ELSE \/ /\ HasRoom
               /\ \E t \in ClockReads :
                    /\ SubmitInsert(body, t)
                    /\ now' = t
               /\ Answered(h, "submit", Some(body), 0,
                           Json(201, "Registration request submitted"), "none")
               /\ UNCHANGED <<users, nextUserId, parents, teachers, documents, students, notifications>>
            \/ /\ Answered(h, "submit", Some(body), 0,
                           Json(500, "Failed to submit registration request"), "storage")
               /\ UNCHANGED <<tables, now>>
    /\ UNCHANGED <<maxInFlight, room>>

\* ------------------------------------------------------------ list
RECURSIVE Perms(_)
\* Every order of the rows of a table.
Perms(rows) ==
    IF rows = {} THEN {<<>>}
    ELSE UNION {{<<r>> \o p : p \in Perms(rows \ {r})} : r \in rows}

Range(seq) == {seq[i] : i \in 1..Len(seq)}

\* A slip: ORDER BY requested_at, ascending.
OrderByRequestedAtAsc(rows) ==
    {s \in Perms(Range(rows)) :
        \A i, j \in 1..Len(s) : i < j => s[i].requested_at <= s[j].requested_at}

\* SELECT * FROM registration_requests ORDER BY requested_at DESC: every row, the
\* later submission first; rows of one requested_at come in any order.
OrderByRequestedAtDesc(rows) ==
    {s \in Perms(Range(rows)) :
        \A i, j \in 1..Len(s) : i < j => s[i].requested_at >= s[j].requested_at}

List(h) ==
    /\ CanStart(h)
    /\ \/ \E rows \in OrderByRequestedAtDesc(requests) :
            Answered(h, "list", Null, 0, Some([status |-> 200, rows |-> rows]), "none")
       \/ Answered(h, "list", Null, 0,
                   Json(500, "Failed to fetch registration requests"), "storage")
    /\ UNCHANGED <<tables, now, maxInFlight, room>>

\* ------------------------------------------------------------ approve, reject
\* req.params.id: the id of each request, and one id that names no request.
RequestIds == 1..(Len(requests) + 1)

\* A slip: the UPDATE without its WHERE clause.
UpdateStatusNoWhere(id, status) ==
    requests' = [i \in 1..Len(requests) |->
                    [requests[i] EXCEPT !.status = status, !.processed_at = Stamp]]

\* A slip: the UPDATE sets the status and leaves processed_at alone.
UpdateStatusNoStamp(id, status) ==
    requests' = [i \in 1..Len(requests) |->
                    IF requests[i].request_id = id
                    THEN [requests[i] EXCEPT !.status = status]
                    ELSE requests[i]]

\* UPDATE registration_requests SET status = ?, processed_at = NOW() WHERE request_id = ?
\* changes the row of that id, whatever its status, and no row when there is none.
UpdateStatus(id, status) ==
    requests' = [i \in 1..Len(requests) |->
                    IF requests[i].request_id = id
                    THEN [requests[i] EXCEPT !.status = status, !.processed_at = Stamp]
                    ELSE requests[i]]

\* A slip: the re-fetch without its WHERE clause, [[request]] the table's first row.
FetchRequestFirstRow(id) ==
    IF requests = <<>> THEN Null ELSE Some(requests[1])

\* SELECT * FROM registration_requests WHERE request_id = ?; [[request]] is its
\* first row, undefined when there is none.
FetchRequest(id) ==
    IF \E i \in 1..Len(requests) : requests[i].request_id = id
    THEN Some(CHOOSE r \in Range(requests) : r.request_id = id)
    ELSE Null

\* A slip: the lookup without its user_type condition.
ParentRowsAnyRole(email) == {u \in users : u.email = email}

\* SELECT user_id FROM users WHERE email = ? AND user_type = 'parent'
ParentRows(email) == {u \in users : u.email = email /\ u.user_type = "parent"}

\* [[parent]]: the first row of the result, in whatever order the database
\* returns the rows; undefined when there is none.
FirstParent(email) ==
    IF ParentRows(email) = {} THEN {Null}
    ELSE {Some(u.user_id) : u \in ParentRows(email)}

Step(h, pc) == calls' = [calls EXCEPT ![h].pc = pc]

Finish(h, res, err) ==
    calls' = [calls EXCEPT ![h].pc = "done", ![h].res = res, ![h].err = err]

FailMessage(op) ==
    IF op = "approve" THEN "Failed to approve request" ELSE "Failed to reject request"

\* The first statement of approve ("approved") and of reject ("rejected").
Decide(h, op, id) ==
    /\ CanStart(h)
    /\ op \in {"approve", "reject"}
    /\ UpdateStatus(id, IF op = "approve" THEN "approved" ELSE "rejected")
    /\ UNCHANGED now
    /\ calls' = [calls EXCEPT ![h] =
                    [IdleCall EXCEPT !.op = op, !.pc = "fetch", !.id = id,
                                     !.pre = Some(Snapshot), !.during = InFlight]]
    /\ UNCHANGED <<users, nextUserId, parents, teachers, documents, students, notifications, maxInFlight, room>>

\* The first statement fails: nothing is written and the catch answers 500.
DecideFails(h, op, id) ==
    /\ CanStart(h)
    /\ op \in {"approve", "reject"}
    /\ Answered(h, op, Null, id, Json(500, FailMessage(op)), "storage")
    /\ UNCHANGED <<tables, now, maxInFlight, room>>

\* The re-fetch; request.parent_email then throws a TypeError when no row came.
Fetch(h) ==
    /\ calls[h].pc = "fetch"
    /\ LET request == FetchRequest(calls[h].id) IN
         IF request = Null
         THEN Finish(h, Json(500, FailMessage(calls[h].op)), "TypeError")
         ELSE calls' = [calls EXCEPT ![h].pc = "lookup", ![h].request = request]
    /\ UNCHANGED <<tables, now, maxInFlight, room>>

\* A slip: reject goes on as approve does, to the student insert.
LookupAsApprove(h) ==
    /\ calls[h].pc = "lookup"
    /\ \E parent \in FirstParent(calls[h].request[1].parent_email) :
         calls' = [calls EXCEPT ![h].pc = "insert", ![h].parent = parent]
    /\ UNCHANGED <<tables, now, maxInFlight, room>>

\* The parent lookup; reject answers here when no parent came.
Lookup(h) ==
    /\ calls[h].pc = "lookup"
    /\ \E parent \in FirstParent(calls[h].request[1].parent_email) :
         IF calls[h].op = "approve"
         THEN calls' = [calls EXCEPT ![h].pc = "insert", ![h].parent = parent]
         ELSE IF parent # Null
         THEN calls' = [calls EXCEPT ![h].pc = "notify", ![h].parent = parent]
         ELSE Finish(h, Json(200, "Request rejected and parent notified."), "none")
    /\ UNCHANGED <<tables, now, maxInFlight, room>>

\* A slip: the row never links the parent found.
NewStudentRowNoLink(request, parent) ==
    [student_id   |-> Len(students) + 1,
     student_name |-> request.student_name,
     parent_id    |-> Null,
     parent_name  |-> request.parent_name,
     parent_email |-> request.parent_email,
     class_id     |-> request.class_id]

\* A slip: parent name and parent email change places.
NewStudentRowSwapped(request, parent) ==
    [student_id   |-> Len(students) + 1,
     student_name |-> request.student_name,
     parent_id    |-> parent,
     parent_name  |-> request.parent_email,
     parent_email |-> request.parent_name,
     class_id     |-> request.class_id]

\* The row INSERT INTO students stores.
NewStudentRow(request, parent) ==
    [student_id   |-> Len(students) + 1,
     student_name |-> request.student_name,
     parent_id    |-> parent,
     parent_name  |-> request.parent_name,
     parent_email |-> request.parent_email,
     class_id     |-> request.class_id]

InsertStudent(request, parent) ==
    students' = Append(students, NewStudentRow(request, parent))

\* approve: the student insert; approve answers here when no parent came.
Insert(h) ==
    /\ calls[h].pc = "insert"
    /\ HasRoom
    /\ InsertStudent(calls[h].request[1], calls[h].parent)
    /\ IF calls[h].parent # Null
       THEN Step(h, "notify")
       ELSE Finish(h, Json(200, "Request approved and student added."), "none")
    /\ UNCHANGED <<users, nextUserId, parents, teachers, documents, requests, notifications,
                   now, maxInFlight, room>>

\* A slip: the notification goes to the user of the next user_id.
NewNotificationRowMisaddressed(op, request, parent) ==
    [notification_id   |-> Len(notifications) + 1,
     user_id           |-> parent[1] + 1,
     title             |-> IF op = "approve" THEN "Registration Approved"
                                             ELSE "Registration Rejected",
     student_name      |-> request.student_name,
     notification_type |-> "request",
     is_read           |-> FALSE]

\* The row INSERT INTO notifications stores.
NewNotificationRow(op, request, parent) ==
    [notification_id   |-> Len(notifications) + 1,
     user_id           |-> parent[1],
     title             |-> IF op = "approve" THEN "Registration Approved"
                                             ELSE "Registration Rejected",
     student_name      |-> request.student_name,
     notification_type |-> "request",
     is_read           |-> FALSE]

InsertNotification(op, request, parent) ==
    notifications' = Append(notifications, NewNotificationRow(op, request, parent))

Notify(h) ==
    /\ calls[h].pc = "notify"
    /\ HasRoom
    /\ InsertNotification(calls[h].op, calls[h].request[1], calls[h].parent)
    /\ Finish(h, Json(200, IF calls[h].op = "approve"
                           THEN "Request approved and student added."
                           ELSE "Request rejected and parent notified."), "none")
    /\ UNCHANGED <<users, nextUserId, parents, teachers, documents, requests, students,
                   now, maxInFlight, room>>

\* A slip: the statements run in a transaction, the catch rolls the UPDATE back.
StorageFailureRollsBack(h) ==
    /\ calls[h].pc \in {"fetch", "lookup", "insert", "notify"}
    /\ calls' = [calls EXCEPT ![h].pc = "done", ![h].err = "storage", ![h].at = calls[h].pc,
                              ![h].res = Json(500, FailMessage(calls[h].op))]
    /\ requests' = calls[h].pre[1].requests
    /\ UNCHANGED <<users, nextUserId, parents, teachers, documents, students, notifications,
                   now, maxInFlight, room>>

\* A statement after the first fails: what is written stays, the catch answers 500.
StorageFailure(h) ==
    /\ calls[h].pc \in {"fetch", "lookup", "insert", "notify"}
    /\ calls' = [calls EXCEPT ![h].pc = "done", ![h].err = "storage", ![h].at = calls[h].pc,
                              ![h].res = Json(500, FailMessage(calls[h].op))]
    /\ UNCHANGED <<tables, now, maxInFlight, room>>

\* ------------------------------------------------------------ users
\* (user_type || '').trim().toLowerCase(), on the user types the clients send.
NormalizeUserType(body) ==
    IF "user_type" \notin DOMAIN body THEN ""
    ELSE CASE body.user_type = " Parent " -> "parent"
           [] body.user_type = "TEACHER"  -> "teacher"
           [] OTHER                       -> body.user_type

ValidUserTypes == {"student", "parent", "teacher", "admin"}

RegisterFields ==
    {"username", "password", "confirmPassword", "email", "firstName", "lastName", "user_type"}

ValidRegisterBodies ==
    [username : Usernames, password : {"pw"}, confirmPassword : {"pw"}, email : Emails,
     firstName : {"f"}, lastName : {"l"}, user_type : {"parent", "teacher"}]

SomeRegisterBody ==
    [username |-> "u1", password |-> "pw", confirmPassword |-> "pw", email |-> "e1",
     firstName |-> "f", lastName |-> "l", user_type |-> "teacher"]

\* req.body of POST /api/register: a complete body, or one with an unknown user
\* type, without a username, or with a confirmation that differs.
RegisterBodies ==
    ValidRegisterBodies
    \cup {[SomeRegisterBody EXCEPT !.user_type = "guest"],
          [SomeRegisterBody EXCEPT !.user_type = " Parent "],
          Restrict(SomeRegisterBody, RegisterFields \ {"username"}),
          Restrict(SomeRegisterBody, RegisterFields \ {"user_type"}),
          [SomeRegisterBody EXCEPT !.confirmPassword = "pw2"]}

RegisterMissing(body) ==
    \E k \in RegisterFields \ {"confirmPassword"} : FalsyStr(body, k)

\* SELECT * FROM users WHERE username = ? OR email = ?
ExistingUsers(body) ==
    {u \in users : u.username = Some(body.username) \/ u.email = body.email}

\* bcrypt.hash(password, 10) and bcrypt.compare(password, hash)
Hash(password) == <<"bcrypt", password>>
Compare(password, hash) == hash = Hash(password)

\* The row INSERT INTO users stores; last_login is NULL until the user logs in.
NewUserRow(username, hashedPassword, email, user_type) ==
    [user_id |-> nextUserId, username |-> username, password |-> hashedPassword,
     email |-> email, user_type |-> user_type, last_login |-> Null]

\* POST /api/register.  The user row and its parent or teacher row are written in
\* one transaction: both commit, or the rollback leaves neither.
Register(h, body) ==
    /\ CanStart(h)
    /\ LET type == NormalizeUserType(body) IN
       IF type \notin ValidUserTypes
       THEN /\ Answered(h, "register", Some(body), 0, Json(400, "Invalid user type"), "none")
            /\ UNCHANGED tables
       ELSE IF RegisterMissing(body)
       THEN /\ Answered(h, "register", Some(body), 0,
                        Json(400, "All required fields must be provided"), "none")
            /\ UNCHANGED tables
       ELSE IF body.password # body.confirmPassword
       THEN /\ Answered(h, "register", Some(body), 0, Json(400, "Passwords do not match"), "none")
            /\ UNCHANGED tables
       ELSE \/ /\ ExistingUsers(body) # {}
               /\ Answered(h, "register", Some(body), 0,
                           Json(400, "Username or email already exists"), "none")
               /\ UNCHANGED tables
            \/ /\ ExistingUsers(body) = {}
               /\ users' = users \cup {NewUserRow(Some(body.username), Hash(body.password),
                                                  body.email, type)}
               /\ nextUserId' = nextUserId + 1
               /\ parents' = IF type = "parent" THEN parents \cup {nextUserId} ELSE parents
               /\ teachers' = IF type = "teacher" THEN teachers \cup {nextUserId} ELSE teachers
               /\ Answered(h, "register", Some(body), 0,
                           Json(201, "User registered successfully"), "none")
               /\ UNCHANGED <<requests, students, notifications, documents>>
            \/ /\ Answered(h, "register", Some(body), 0, Json(500, "Registration failed"), "storage")
               /\ UNCHANGED tables
    /\ UNCHANGED <<now, maxInFlight, room>>

\* ------------------------------------------------------------ register, by statement
\* POST /api/register as the statements it awaits, for calls that overlap.  A row
\* written in a transaction is seen by other connections once it is committed.
RegisterBodiesConc ==
    RegisterBodies
    \cup {[SomeRegisterBody EXCEPT !.username = "u2", !.email = "e2", !.user_type = "parent"]}

RegisterFinish(h, conn, res, err, at) ==
    calls' = [calls EXCEPT ![h].pc = "done", ![h].conn = conn, ![h].tx = Null,
                           ![h].res = res, ![h].err = err, ![h].at = at]

\* The validations and the SELECT of the existing users.
RegisterCheck(h, body) ==
    /\ CanStart(h)
    /\ LET type == NormalizeUserType(body) IN
       IF type \notin ValidUserTypes
       THEN Answered(h, "register", Some(body), 0, Json(400, "Invalid user type"), "none")
       ELSE IF RegisterMissing(body)
       THEN Answered(h, "register", Some(body), 0,
                     Json(400, "All required fields must be provided"), "none")
       ELSE IF body.password # body.confirmPassword
       THEN Answered(h, "register", Some(body), 0, Json(400, "Passwords do not match"), "none")
       ELSE \/ IF ExistingUsers(body) # {}
               THEN Answered(h, "register", Some(body), 0,
                             Json(400, "Username or email already exists"), "none")
               ELSE calls' = [calls EXCEPT ![h] =
                                [IdleCall EXCEPT !.op = "register", !.pc = "begin",
                                                 !.body = Some(body), !.pre = Some(Snapshot),
                                                 !.during = InFlight]]
            \/ Answered(h, "register", Some(body), 0, Json(500, "Registration failed"), "storage")
    /\ UNCHANGED <<tables, now, maxInFlight, room>>

\* bcrypt.hash, pool.getConnection and conn.beginTransaction.
RegisterBegin(h) ==
    /\ calls[h].op = "register" /\ calls[h].pc = "begin"
    /\ calls' = [calls EXCEPT ![h].pc = "user", ![h].conn = "held"]
    /\ UNCHANGED <<tables, now, maxInFlight, room>>

\* One of them fails, outside the inner try: the outer catch answers 500.  When
\* it is beginTransaction, the connection was taken and no statement releases it.
RegisterBeginFails(h) ==
    /\ calls[h].op = "register" /\ calls[h].pc = "begin"
    /\ \E conn \in {"none", "held"} :
         RegisterFinish(h, conn, Json(500, "Registration failed"), "storage", "begin")
    /\ UNCHANGED <<tables, now, maxInFlight, room>>

\* A slip: the INSERT goes to the pool, outside the transaction.
RegisterInsertUserNoTx(h) ==
    /\ calls[h].op = "register" /\ calls[h].pc = "user"
    /\ LET body == calls[h].body[1]
           type == NormalizeUserType(body)
       IN /\ users' = users \cup {NewUserRow(Some(body.username), Hash(body.password),
                                             body.email, type)}
          /\ calls' = [calls EXCEPT
                         ![h].pc = IF type \in {"parent", "teacher"} THEN "role" ELSE "commit",
                         ![h].userId = nextUserId,
                         ![h].tx = Some([user |-> {}, role |-> "none"])]
    /\ nextUserId' = nextUserId + 1
    /\ UNCHANGED <<parents, teachers, requests, students, notifications, documents,
                   now, maxInFlight, room>>

\* INSERT INTO users, in the transaction; result.insertId is the next user_id,
\* which is used up whether or not the transaction commits.
RegisterInsertUser(h) ==
    /\ calls[h].op = "register" /\ calls[h].pc = "user"
    /\ LET body == calls[h].body[1]
           type == NormalizeUserType(body)
           row  == NewUserRow(Some(body.username), Hash(body.password), body.email, type)
       IN calls' = [calls EXCEPT
                      ![h].pc = IF type \in {"parent", "teacher"} THEN "role" ELSE "commit",
                      ![h].userId = nextUserId,
                      ![h].tx = Some([user |-> {row}, role |-> "none"])]
    /\ nextUserId' = nextUserId + 1
    /\ UNCHANGED <<users, parents, teachers, requests, students, notifications, documents,
                   now, maxInFlight, room>>

\* INSERT INTO parents or INSERT INTO teachers, in the transaction.
RegisterInsertRole(h) ==
    /\ calls[h].op = "register" /\ calls[h].pc = "role"
    /\ calls' = [calls EXCEPT ![h].pc = "commit",
                              ![h].tx = Some([calls[h].tx[1] EXCEPT
                                                !.role = NormalizeUserType(calls[h].body[1])])]
    /\ UNCHANGED <<tables, now, maxInFlight, room>>

\* conn.commit: the rows of the transaction are stored; 201; finally conn.release().
RegisterCommit(h) ==
    /\ calls[h].op = "register" /\ calls[h].pc = "commit"
    /\ LET tx == calls[h].tx[1] IN
         /\ users' = users \cup tx.user
         /\ parents' = IF tx.role = "parent" THEN parents \cup {calls[h].userId} ELSE parents
         /\ teachers' = IF tx.role = "teacher" THEN teachers \cup {calls[h].userId} ELSE teachers
    /\ RegisterFinish(h, "released", Json(201, "User registered successfully"), "none", "none")
    /\ UNCHANGED <<nextUserId, requests, students, notifications, documents,
                   now, maxInFlight, room>>

\* A statement of the transaction fails: conn.rollback drops its rows, finally
\* conn.release(), and the outer catch answers 500.
RegisterRollback(h) ==
    /\ calls[h].op = "register" /\ calls[h].pc \in {"user", "role", "commit"}
    /\ RegisterFinish(h, "released", Json(500, "Registration failed"), "storage", calls[h].pc)
    /\ UNCHANGED <<tables, now, maxInFlight, room>>

\* ------------------------------------------------------------ login
LoginBodies == [username : Usernames \cup {"u9"}, password : {"pw", "bad"}]

\* jwt.sign({ userId }, JWT_SECRET, { expiresIn: '1d' })
Sign(userId) == [userId |-> userId, secret |-> "JWT_SECRET", expired |-> FALSE]

\* jwt.verify(token, JWT_SECRET): the payload, or it throws (no value) when the
\* token was signed with another secret or has expired.
Verify(token) ==
    IF token.secret = "JWT_SECRET" /\ ~token.expired
    THEN Some([userId |-> token.userId])
    ELSE Null

\* UPDATE users SET last_login = NOW() WHERE user_id = ?
UpdateLastLogin(user) ==
    users' = {IF u.user_id = user.user_id THEN [u EXCEPT !.last_login = Stamp] ELSE u :
                u \in users}

\* POST /api/login.  A storage failure before the UPDATE leaves the tables as they
\* were, one after it (the details lookup) leaves last_login written.
Login(h, body) ==
    /\ CanStart(h)
    /\ LET found == {u \in users : u.username = Some(body.username)} IN
       \/ /\ found = {}
          /\ Answered(h, "login", Some(body), 0, Json(401, "Invalid credentials"), "none")
          /\ UNCHANGED tables
       \/ \E user \in found :
            IF ~Compare(body.password, user.password)
            THEN /\ Answered(h, "login", Some(body), 0, Json(401, "Invalid credentials"), "none")
                 /\ UNCHANGED tables
            ELSE /\ UpdateLastLogin(user)
                 /\ \/ Answered(h, "login", Some(body), 0,
                                Some([status |-> 200, token |-> Sign(user.user_id),
                                      user |-> [id |-> user.user_id, username |-> user.username,
                                                email |-> user.email,
                                                user_type |-> user.user_type]]), "none")
                    \/ Answered(h, "login", Some(body), 0, Json(500, "Login failed"), "storage")
                 /\ UNCHANGED <<nextUserId, parents, teachers, requests, students,
                                notifications, documents>>
       \/ /\ Answered(h, "login", Some(body), 0, Json(500, "Login failed"), "storage")
          /\ UNCHANGED tables
    /\ UNCHANGED <<now, maxInFlight, room>>

\* ------------------------------------------------------------ authenticate
\* The tokens a client can send: one signed for each user_id, for one that names
\* no user (a user deleted since, DELETE /api/parents/:id), one signed with another
\* secret and one that has expired.
Tokens ==
    {Sign(u) : u \in 1..nextUserId}
    \cup {[Sign(1) EXCEPT !.secret = "other"], [Sign(1) EXCEPT !.expired = TRUE]}

\* req.headers.authorization, as the words a blank separates: no header, a scheme
\* alone, or a scheme and a token.
Headers == {Null, Some(<<"Bearer">>)} \cup {Some(<<"Bearer", t>>) : t \in Tokens}

\* req.headers.authorization?.split(' ')[1]
BearerToken(header) ==
    IF header = Null THEN Null
    ELSE IF Len(header[1]) < 2 THEN Null
    ELSE Some(header[1][2])

\* The routes behind authenticate(user_types), and the user_types of each.
Permitted(op) == IF op = "deletedoc" THEN {"teacher", "admin"} ELSE {}

\* req.params.id of mark-as-read: the id of each notification, and one that names
\* none.
NotificationIds == 1..(Len(notifications) + 1)

\* req.params.document_id of the delete.
DocumentIds == {1, 2}

GuardAnswered(h, op, header, res, err) ==
    calls' = [calls EXCEPT ![h] =
                [IdleCall EXCEPT !.op = op, !.pc = "done", !.header = header,
                                 !.res = res, !.err = err, !.pre = Some(Snapshot),
                                 !.during = InFlight]]

\* A slip: the role check is left out.
AuthenticateNoRoleCheck(h, op, header) ==
    /\ CanStart(h)
    /\ LET token == BearerToken(header) IN
       IF token = Null
       THEN GuardAnswered(h, op, header, Json(401, "Authentication required"), "none")
       ELSE LET decoded == Verify(token[1]) IN
            IF decoded = Null
            THEN GuardAnswered(h, op, header, Json(401, "Invalid token"), "none")
            ELSE \/ LET found == {u \in users : u.user_id = decoded[1].userId} IN
                    IF found = {}
                    THEN GuardAnswered(h, op, header, Json(401, "User not found"), "none")
                    ELSE \E user \in found :
                           calls' = [calls EXCEPT ![h] =
                                       [IdleCall EXCEPT !.op = op, !.pc = "handler",
                                                        !.header = header,
                                                        !.user = Some(user),
                                                        !.pre = Some(Snapshot),
                                                        !.during = InFlight]]
                 \/ GuardAnswered(h, op, header, Json(401, "Invalid token"), "storage")
    /\ UNCHANGED <<tables, now, maxInFlight, room>>

\* The middleware authenticate(user_types) of a guarded route: it answers 401 or
\* 403, or sets req.user and calls next().  A failure of its query is caught with
\* the failures of jwt.verify and answers 401 as they do.
Authenticate(h, op, header) ==
    /\ CanStart(h)
    /\ LET token == BearerToken(header) IN
       IF token = Null
       THEN GuardAnswered(h, op, header, Json(401, "Authentication required"), "none")
       ELSE LET decoded == Verify(token[1]) IN
            IF decoded = Null
            THEN GuardAnswered(h, op, header, Json(401, "Invalid token"), "none")
            ELSE \/ LET found == {u \in users : u.user_id = decoded[1].userId} IN
                    IF found = {}
                    THEN GuardAnswered(h, op, header, Json(401, "User not found"), "none")
                    ELSE \E user \in found :
                           IF Permitted(op) # {} /\ user.user_type \notin Permitted(op)
                           THEN GuardAnswered(h, op, header,
                                              Json(403, "Insufficient permissions"), "none")
                           ELSE calls' = [calls EXCEPT ![h] =
                                            [IdleCall EXCEPT !.op = op, !.pc = "handler",
                                                             !.header = header,
                                                             !.user = Some(user),
                                                             !.pre = Some(Snapshot),
                                                             !.during = InFlight]]
                 \/ GuardAnswered(h, op, header, Json(401, "Invalid token"), "storage")
    /\ UNCHANGED <<tables, now, maxInFlight, room>>

\* A slip: the UPDATE without its user_id condition.
UpdateReadAnyOwner(id, user) ==
    notifications' = [i \in 1..Len(notifications) |->
                        IF notifications[i].notification_id = id
                        THEN [notifications[i] EXCEPT !.is_read = TRUE]
                        ELSE notifications[i]]

\* UPDATE notifications SET is_read = TRUE WHERE notification_id = ? AND user_id = ?
UpdateRead(id, user) ==
    notifications' = [i \in 1..Len(notifications) |->
                        IF /\ notifications[i].notification_id = id
                           /\ notifications[i].user_id = user.user_id
                        THEN [notifications[i] EXCEPT !.is_read = TRUE]
                        ELSE notifications[i]]

\* PATCH /api/notifications/:id/read, after authenticate().
HandlerFinish(h, id, res, err) ==
    calls' = [calls EXCEPT ![h].pc = "done", ![h].id = id, ![h].res = res, ![h].err = err]

MarkRead(h, id) ==
    /\ calls[h].pc = "handler" /\ calls[h].op = "markread"
    /\ \/ /\ UpdateRead(id, calls[h].user[1])
          /\ HandlerFinish(h, id, Json(200, "Notification marked as read"), "none")
          /\ UNCHANGED <<users, nextUserId, parents, teachers, documents, requests, students>>
       \/ /\ HandlerFinish(h, id, Json(500, "Failed to update notification"), "storage")
          /\ UNCHANGED tables
    /\ UNCHANGED <<now, maxInFlight, room>>

\* DELETE /api/documents/:document_id, after authenticate(['teacher', 'admin']).
DeleteDocument(h, id) ==
    /\ calls[h].pc = "handler" /\ calls[h].op = "deletedoc"
    /\ \/ /\ documents' = documents \ {id}
          /\ HandlerFinish(h, id, Json(200, "Document deleted"), "none")
          /\ UNCHANGED <<users, nextUserId, parents, teachers, requests, students,
                         notifications>>
       \/ /\ HandlerFinish(h, id, Json(500, "Failed to delete document"), "storage")
          /\ UNCHANGED tables
    /\ UNCHANGED <<now, maxInFlight, room>>

Init ==
    /\ users = {}
    /\ nextUserId = 1
    /\ parents = {}
    /\ teachers = {}
    /\ requests = <<>>
    /\ students = <<>>
    /\ notifications = <<>>
    /\ now = 1
    /\ documents = {}
    /\ calls = [h \in Handlers |-> IdleCall]
    /\ maxInFlight = 1
    /\ room = MaxRows

Next ==
    \/ \E h \in Handlers, body \in SubmitBodies : Submit(h, body)
    \/ \E h \in Handlers : List(h)
    \/ \E h \in Handlers, body \in RegisterBodies : Register(h, body)
    \/ \E h \in Handlers, op \in {"approve", "reject"}, id \in RequestIds : Decide(h, op, id)
    \/ \E h \in Handlers, op \in {"approve", "reject"}, id \in RequestIds : DecideFails(h, op, id)
    \/ \E h \in Handlers : Fetch(h)
    \/ \E h \in Handlers : Lookup(h)
    \/ \E h \in Handlers : Insert(h)
    \/ \E h \in Handlers : Notify(h)
    \/ \E h \in Handlers : StorageFailure(h)
    \/ \E h \in Handlers : Return(h)

Spec == Init /\ [][Next]_vars

\* ------------------------------------------------------------ with the users' calls
\* The calls of Spec, and those a user makes for itself: login and mark-as-read.
NextAll ==
    \/ Next
    \/ \E h \in Handlers, body \in LoginBodies : Login(h, body)
    \/ \E h \in Handlers, header \in Headers : Authenticate(h, "markread", header)
    \/ \E h \in Handlers, id \in NotificationIds : MarkRead(h, id)

SpecAll == Init /\ [][NextAll]_vars

\* ------------------------------------------------------------ concurrent decisions
\* Two clients each make one approve or reject call, at the same time or one after
\* the other; both answers stay to be read.  The database holds what earlier calls
\* left: one or two pending requests, for different students, and no user or the
\* parent of "e1"; it has room for every row the two calls insert.
PendingRow(id, t) ==
    [request_id |-> id, student_name |-> IF id = 1 THEN "s1" ELSE "s2",
     parent_name |-> "p1", parent_email |-> "e1",
     class_id |-> 1, status |-> "pending", requested_at |-> t, processed_at |-> Null]

ParentE1 ==
    [user_id |-> 1, username |-> Some("u1"), password |-> Hash("pw"), email |-> "e1",
     user_type |-> "parent", last_login |-> Null]

InitConc ==
    /\ \/ users = {} /\ nextUserId = 1 /\ parents = {}
       \/ users = {ParentE1} /\ nextUserId = 2 /\ parents = {1}
    /\ teachers = {}
    /\ \/ requests = <<PendingRow(1, 1)>> /\ now = 1
       \/ requests = <<PendingRow(1, 1), PendingRow(2, 2)>> /\ now = 2
    /\ students = <<>>
    /\ notifications = <<>>
    /\ documents = {}
    /\ calls = [h \in Handlers |-> IdleCall]
    /\ maxInFlight = 2
    /\ room = Len(requests) + 2 * Cardinality(Handlers)

NextConc ==
    \/ \E h \in Handlers, op \in {"approve", "reject"}, id \in RequestIds : Decide(h, op, id)
    \/ \E h \in Handlers, op \in {"approve", "reject"}, id \in RequestIds : DecideFails(h, op, id)
    \/ \E h \in Handlers : Fetch(h)
    \/ \E h \in Handlers : Lookup(h)
    \/ \E h \in Handlers : Insert(h)
    \/ \E h \in Handlers : Notify(h)
    \/ \E h \in Handlers : StorageFailure(h)

SpecConc == InitConc /\ [][NextConc]_vars

\* ------------------------------------------------------------ concurrent registrations
\* Two clients each make one register call, at the same time or one after the
\* other, on an empty users table or one that holds the parent of "e1".
InitReg ==
    /\ \/ users = {} /\ nextUserId = 1 /\ parents = {}
       \/ users = {ParentE1} /\ nextUserId = 2 /\ parents = {1}
    /\ teachers = {}
    /\ requests = <<>>
    /\ students = <<>>
    /\ notifications = <<>>
    /\ documents = {}
    /\ now = 1
    /\ calls = [h \in Handlers |-> IdleCall]
    /\ maxInFlight = 2
    /\ room = MaxRows

NextReg ==
    \/ \E h \in Handlers, body \in RegisterBodiesConc : RegisterCheck(h, body)
    \/ \E h \in Handlers : RegisterBegin(h)
    \/ \E h \in Handlers : RegisterBeginFails(h)
    \/ \E h \in Handlers : RegisterInsertUser(h)
    \/ \E h \in Handlers : RegisterInsertRole(h)
    \/ \E h \in Handlers : RegisterCommit(h)
    \/ \E h \in Handlers : RegisterRollback(h)

SpecReg == InitReg /\ [][NextReg]_vars

\* ------------------------------------------------------------ guarded routes
\* The users' own calls, one at a time, on the database earlier calls left: a
\* parent and a teacher, an approved and a rejected request of that parent with
\* their student and notifications, and a document.
TeacherE2 ==
    [user_id |-> 2, username |-> Some("u2"), password |-> Hash("pw"), email |-> "e2",
     user_type |-> "teacher", last_login |-> Null]

InitGuard ==
    /\ users = {ParentE1, TeacherE2}
    /\ nextUserId = 3
    /\ parents = {1}
    /\ teachers = {2}
    /\ requests = <<[PendingRow(1, 1) EXCEPT !.status = "approved", !.processed_at = Stamp],
                    [PendingRow(2, 2) EXCEPT !.status = "rejected", !.processed_at = Stamp]>>
    /\ students = <<[student_id |-> 1, student_name |-> "s1", parent_id |-> Some(1),
                     parent_name |-> "p1", parent_email |-> "e1", class_id |-> 1]>>
    /\ notifications =
         <<[notification_id |-> 1, user_id |-> 1, title |-> "Registration Approved",
            student_name |-> "s1", notification_type |-> "request", is_read |-> FALSE],
           [notification_id |-> 2, user_id |-> 1, title |-> "Registration Rejected",
            student_name |-> "s2", notification_type |-> "request", is_read |-> FALSE]>>
    /\ documents = {1}
    /\ now = 2
    /\ calls = [h \in Handlers |-> IdleCall]
    /\ maxInFlight = 1
    /\ room = RowsInserted

NextGuard ==
    \/ \E h \in Handlers, body \in LoginBodies : Login(h, body)
    \/ \E h \in Handlers, header \in Headers : Authenticate(h, "markread", header)
    \/ \E h \in Handlers, header \in Headers : Authenticate(h, "deletedoc", header)
    \/ \E h \in Handlers, id \in NotificationIds : MarkRead(h, id)
    \/ \E h \in Handlers, id \in DocumentIds : DeleteDocument(h, id)
    \/ \E h \in Handlers : Return(h)

SpecGuard == InitGuard /\ [][NextGuard]_vars

\* ------------------------------------------------------------ properties
Pre(h)    == calls[h].pre[1]
Answer(h) == calls[h].res[1]
Done(h, op) == calls[h].op = op /\ calls[h].pc = "done"
Deciding(h) == calls[h].op \in {"approve", "reject"}

HasRow(reqs, id) == \E r \in Range(reqs) : r.request_id = id
RowOf(reqs, id)  == CHOOSE r \in Range(reqs) : r.request_id = id

\* The request a decision names, as the call found it and as it is now.
Existed(h)    == HasRow(Pre(h).requests, calls[h].id)
PreRow(h)     == RowOf(Pre(h).requests, calls[h].id)
NowRow(h)     == RowOf(requests, calls[h].id)
WasPending(h) == Existed(h) /\ PreRow(h).status = "pending"

\* The users the parent lookup is meant to find, and every user of that email.
MatchingParents(h) ==
    {u \in Pre(h).users : u.user_type = "parent" /\ u.email = PreRow(h).parent_email}
MatchingUsers(h) == {u \in Pre(h).users : u.email = PreRow(h).parent_email}

Last(seq) == seq[Len(seq)]
AddsOne(seq, before) ==
    Len(seq) = Len(before) + 1 /\ SubSeq(seq, 1, Len(before)) = before

\* An approve call on a pending request that met no storage failure.
ApprovedPending(h) == Done(h, "approve") /\ calls[h].err = "none" /\ WasPending(h)

\* C1: two approve calls on one pending request, the second begun while the first
\* was in flight, both answered without a storage failure: exactly one student has
\* been added and the request is approved.
C1_ConcurrentApproveAddsOneStudent ==
    \A h1, h2 \in Handlers :
        (/\ h1 # h2
         /\ ApprovedPending(h1)
         /\ Done(h2, "approve") /\ calls[h2].err = "none"
         /\ calls[h2].id = calls[h1].id
         /\ h1 \in calls[h2].during)
        => /\ NowRow(h1).status = "approved"
           /\ AddsOne(students, Pre(h1).students)

\* C2: a decision on a request that was already approved or rejected leaves its
\* status as it was and adds no student and no notification.
C2_ProcessedRequestStaysAsItIs ==
    \A h \in Handlers :
        (Deciding(h) /\ Existed(h) /\ PreRow(h).status # "pending")
        => /\ NowRow(h).status = PreRow(h).status
           /\ students = Pre(h).students
           /\ notifications = Pre(h).notifications

\* C3: approve of a pending request whose parent email is that of a parent-role
\* user, with no storage failure: the request is approved, one student is added
\* whose parent_id is that user's id, and one notification is added, for that user.
C3_ApproveLinksAndNotifiesParent ==
    \A h \in Handlers :
        (ApprovedPending(h) /\ MatchingParents(h) # {})
        => /\ Answer(h).status = 200
           /\ NowRow(h).status = "approved"
           /\ AddsOne(students, Pre(h).students)
           /\ AddsOne(notifications, Pre(h).notifications)
           /\ \E u \in MatchingParents(h) :
                /\ Last(students).parent_id = Some(u.user_id)
                /\ Last(notifications).user_id = u.user_id
           /\ Last(notifications).title = "Registration Approved"

C3_Witness ==
    \E h \in Handlers :
        /\ ApprovedPending(h) /\ MatchingParents(h) # {}
        /\ Len(students) = 1 /\ Len(notifications) = 1

\* C4: approve of a pending request whose parent email is no user's, with no
\* storage failure: the request is approved, one student is added with parent_id
\* NULL and the request's parent name and email, and no notification is added.
C4_ApproveWithoutParent ==
    \A h \in Handlers :
        (ApprovedPending(h) /\ MatchingUsers(h) = {})
        => /\ Answer(h).status = 200
           /\ NowRow(h).status = "approved"
           /\ AddsOne(students, Pre(h).students)
           /\ Last(students).parent_id = Null
           /\ Last(students).student_name = PreRow(h).student_name
           /\ Last(students).parent_name = PreRow(h).parent_name
           /\ Last(students).parent_email = PreRow(h).parent_email
           /\ notifications = Pre(h).notifications

C4_Witness ==
    \E h \in Handlers :
        /\ ApprovedPending(h) /\ MatchingUsers(h) = {}
        /\ Pre(h).users # {}
        /\ Len(students) = 1

\* C5: at every step of a reject call the students are those the call found.
C5_RejectAddsNoStudent ==
    \A h \in Handlers : calls[h].op = "reject" => students = Pre(h).students

C5_Witness ==
    \E h \in Handlers :
        /\ Done(h, "reject") /\ calls[h].err = "none" /\ Existed(h)
        /\ MatchingParents(h) # {}
        /\ students # <<>>

\* C6: reject of an existing request with no storage failure: the request is
\* rejected and processed_at is set; a rejection notification for a parent-role
\* user of the request's parent email is added when there is such a user, and no
\* notification otherwise.
C6_RejectMarksAndNotifies ==
    \A h \in Handlers :
        (Done(h, "reject") /\ calls[h].err = "none" /\ Existed(h))
        => /\ Answer(h).status = 200
           /\ NowRow(h).status = "rejected"
           /\ NowRow(h).processed_at # Null
           /\ IF MatchingParents(h) # {}
              THEN /\ AddsOne(notifications, Pre(h).notifications)
                   /\ \E u \in MatchingParents(h) : Last(notifications).user_id = u.user_id
                   /\ Last(notifications).title = "Registration Rejected"
              ELSE notifications = Pre(h).notifications

C6_Witness ==
    \E h \in Handlers :
        /\ Done(h, "reject") /\ calls[h].err = "none" /\ WasPending(h)
        /\ MatchingParents(h) # {}
        /\ Len(notifications) = 1

\* A submit body that carries the four required fields, none of them empty.
Carries(body) ==
    /\ SubmitFields \subseteq DOMAIN body
    /\ body.student_name # "" /\ body.parent_name # "" /\ body.parent_email # ""
    /\ body.class_id # 0

SubmittedOk(h) ==
    Done(h, "submit") /\ calls[h].err = "none" /\ Carries(calls[h].body[1])

AddsPendingRequest(h) ==
    /\ AddsOne(requests, Pre(h).requests)
    /\ Last(requests).status = "pending"
    /\ Last(requests).processed_at = Null
    /\ \A r \in Range(Pre(h).requests) : r.request_id # Last(requests).request_id
    /\ Last(requests).student_name = calls[h].body[1].student_name
    /\ Last(requests).parent_name = calls[h].body[1].parent_name
    /\ Last(requests).parent_email = calls[h].body[1].parent_email
    /\ Last(requests).class_id = calls[h].body[1].class_id
    /\ users = Pre(h).users
    /\ students = Pre(h).students
    /\ notifications = Pre(h).notifications

\* C7, as the spec states it: a submit that carries the four fields, with no
\* storage failure, adds one pending request with a fresh request_id and answers
\* with that request_id.
C7_SubmitReturnsIdentifier ==
    \A h \in Handlers :
        SubmittedOk(h)
        => /\ AddsPendingRequest(h)
           /\ "request_id" \in DOMAIN Answer(h)
           /\ Answer(h).request_id = Last(requests).request_id

\* C7, amended: a submit that carries the four fields, none empty, with no storage
\* failure, adds one pending request with a fresh request_id and answers 201 with
\* the confirmation message alone.
C7_SubmitAddsPendingRequest ==
    \A h \in Handlers :
        SubmittedOk(h)
        => /\ AddsPendingRequest(h)
           /\ Answer(h) = [status |-> 201, message |-> "Registration request submitted"]

C7_Witness ==
    \E h \in Handlers : SubmittedOk(h) /\ Len(requests) = 2

\* A submit body in which a required field is absent, or a name or the email empty.
MissingField(body) ==
    \E k \in SubmitFields : k \notin DOMAIN body \/ (k # "class_id" /\ body[k] = "")

\* C8: a submit in which one of the four fields is absent, or a name or the email
\* is empty, answers 400 and leaves every table as it was.
C8_SubmitMissingFieldRefused ==
    \A h \in Handlers :
        (Done(h, "submit") /\ MissingField(calls[h].body[1]))
        => /\ Answer(h).status = 400
           /\ Snapshot = Pre(h)

C8_Witness ==
    \E h \in Handlers :
        /\ Done(h, "submit") /\ "class_id" \notin DOMAIN calls[h].body[1]
        /\ Answer(h).status = 400
        /\ requests # <<>>

\* C9: an approve or reject call whose id names no request changes no request and
\* adds no student and no notification, at any of its steps, and answers 500.
C9_UnknownIdFails ==
    \A h \in Handlers :
        (Deciding(h) /\ ~Existed(h))
        => /\ requests = Pre(h).requests
           /\ students = Pre(h).students
           /\ notifications = Pre(h).notifications
           /\ calls[h].pc = "done" => Answer(h).status = 500

C9_Witness ==
    \E h \in Handlers :
        /\ Done(h, "approve") /\ ~Existed(h) /\ calls[h].err = "TypeError"
        /\ \E r \in Range(requests) : r.status = "pending"

\* C10: the answer of list holds every request once, pending or processed, the
\* later requested_at first, and list leaves every table as it was.
C10_ListAllNewestFirst ==
    \A h \in Handlers :
        (Done(h, "list") /\ calls[h].err = "none")
        => /\ Answer(h).status = 200
           /\ Len(Answer(h).rows) = Len(requests)
           /\ Range(Answer(h).rows) = Range(requests)
           /\ \A i, j \in 1..Len(Answer(h).rows) :
                i < j => Answer(h).rows[i].requested_at >= Answer(h).rows[j].requested_at
           /\ Snapshot = Pre(h)

C10_Witness ==
    \E h \in Handlers :
        /\ Done(h, "list") /\ calls[h].err = "none"
        /\ Len(Answer(h).rows) = 2
        /\ Answer(h).rows[1].requested_at > Answer(h).rows[2].requested_at
        /\ Answer(h).rows[1].status = "pending"
        /\ Answer(h).rows[2].status # "pending"

\* A row without its generated identifier.
NoId(row, k) == [f \in DOMAIN row \ {k} |-> row[f]]

\* What the parent lookup of call h can yield, from the users the call found.
ParentOf(h) ==
    IF MatchingParents(h) = {} THEN {Null}
    ELSE {Some(u.user_id) : u \in MatchingParents(h)}

\* The rows approve of the request of call h adds when it runs alone.
SerialStudents(h) ==
    {NoId(NewStudentRow(PreRow(h), p), "student_id") : p \in ParentOf(h)}
SerialNotifications(h) ==
    {NoId(NewNotificationRow("approve", PreRow(h), p), "notification_id") :
        p \in ParentOf(h) \ {Null}}

Added(seq, before) == {i \in 1..Len(seq) : i > Len(before)}

\* Two approve calls on different pending requests, the second begun while the
\* first was in flight, both answered without a storage failure.
ApprovedTogether(h1, h2) ==
    /\ h1 # h2
    /\ ApprovedPending(h1) /\ ApprovedPending(h2)
    /\ calls[h1].id # calls[h2].id
    /\ h1 \in calls[h2].during

\* C12: two approve calls on different pending requests that overlap, whatever the
\* order of their statements: both requests are approved, and the students and the
\* notifications added are those each call adds when it runs alone, one student
\* for each request with that request's fields (identifiers apart, which follow
\* the order of the inserts).
C12_ApprovesOfDifferentRequestsIndependent ==
    \A h1, h2 \in Handlers :
        ApprovedTogether(h1, h2)
        => /\ NowRow(h1).status = "approved" /\ NowRow(h2).status = "approved"
           /\ Len(requests) = Len(Pre(h1).requests)
           /\ SubSeq(students, 1, Len(Pre(h1).students)) = Pre(h1).students
           /\ Len(students) = Len(Pre(h1).students) + 2
           /\ SubSeq(notifications, 1, Len(Pre(h1).notifications)) = Pre(h1).notifications
           /\ Len(notifications) = Len(Pre(h1).notifications)
                                   + Cardinality({h \in {h1, h2} : SerialNotifications(h) # {}})
           /\ \A h \in {h1, h2} :
                /\ Cardinality({i \in Added(students, Pre(h1).students) :
                                  NoId(students[i], "student_id") \in SerialStudents(h)}) = 1
                /\ SerialNotifications(h) # {}
                   => Cardinality({i \in Added(notifications, Pre(h1).notifications) :
                                     NoId(notifications[i], "notification_id")
                                        \in SerialNotifications(h)}) = 1

C12_Witness ==
    \E h1, h2 \in Handlers :
        /\ ApprovedTogether(h1, h2)
        /\ Len(students) = 2 /\ Len(notifications) = 2
        /\ students[1].student_name # notifications[1].student_name

\* An approve call on an existing request that a storage failure ended after its
\* UPDATE, at the re-fetch, the parent lookup or the student insert.
FailedAfterUpdate(h) ==
    /\ Done(h, "approve") /\ calls[h].err = "storage"
    /\ calls[h].at \in {"fetch", "lookup", "insert"}
    /\ Existed(h)

\* C13: approve whose re-fetch, parent lookup or student insert fails answers 500
\* with the one failure message, and leaves the request approved, with no student
\* and no notification added.
C13_ApproveNotAtomic ==
    \A h \in Handlers :
        FailedAfterUpdate(h)
        => /\ Answer(h) = [status |-> 500, message |-> "Failed to approve request"]
           /\ NowRow(h).status = "approved"
           /\ NowRow(h).processed_at # Null
           /\ students = Pre(h).students
           /\ notifications = Pre(h).notifications

C13_Witness ==
    \E h \in Handlers :
        /\ FailedAfterUpdate(h) /\ WasPending(h)
        /\ calls[h].at = "insert"
        /\ NowRow(h).status = "approved"
        /\ students = <<>>

\* C14: in every state the processed_at of a request is NULL exactly when its
\* status is pending.
C14_ProcessedAtNullIffPending ==
    \A r \in Range(requests) : (r.processed_at = Null) <=> (r.status = "pending")

C14_Witness ==
    /\ \E r \in Range(requests) : r.status = "pending" /\ r.processed_at = Null
    /\ \E r \in Range(requests) : r.status = "approved" /\ r.processed_at # Null
    /\ \E r \in Range(requests) : r.status = "rejected" /\ r.processed_at # Null

\* The parent-role users a decision's notification is meant for.
ParentsOfRequest(h) ==
    {u \in users : u.user_type = "parent" /\ u.email = calls[h].request[1].parent_email}

\* C15: a step that changes the number of notifications is the notification insert
\* of an approve or reject call: it adds one notification, for a parent-role user
\* whose email is the parent email of the call's request.  No step of submit,
\* list, register, login or mark-as-read adds or removes one.
C15_NotificationsOnlyFromDecisions ==
    [][Len(notifications') # Len(notifications)
       => \E h \in Handlers :
            /\ calls[h].op \in {"approve", "reject"}
            /\ calls[h].pc = "notify" /\ calls'[h].pc = "done"
            /\ calls[h].request[1].request_id = calls[h].id
            /\ AddsOne(notifications', notifications)
            /\ \E u \in ParentsOfRequest(h) : Last(notifications').user_id = u.user_id]_vars

C15_Witness ==
    \E h \in Handlers :
        /\ Done(h, "reject") /\ calls[h].err = "none"
        /\ AddsOne(notifications, Pre(h).notifications)
        /\ Len(notifications) = 2
        /\ notifications[1].is_read
        /\ \E u \in users : u.last_login # Null

\* A call to a route behind authenticate, and what its header resolves to: the
\* token, its payload, and the users of the payload's userId.
Guarded(h)  == calls[h].op \in {"markread", "deletedoc"}
TokenOf(h)  == BearerToken(calls[h].header)
Decoded(h)  == IF TokenOf(h) = Null THEN Null ELSE Verify(TokenOf(h)[1])
Resolved(h) ==
    IF Decoded(h) = Null THEN {}
    ELSE {u \in Pre(h).users : u.user_id = Decoded(h)[1].userId}
RoleIn(h, roles) == roles = {} \/ \E u \in Resolved(h) : u.user_type \in roles
RoleOk(h) ==
    IF calls[h].op = "deletedoc" THEN RoleIn(h, {"teacher", "admin"}) ELSE RoleIn(h, {})

\* next() was called: req.user is set and the handler runs or has run.
HandlerRuns(h) == calls[h].user # Null

\* C11: the handler of a guarded route runs only for a header whose token is
\* present and verifies, names an existing user, and whose role is permitted when
\* roles are given; a call whose token is absent, does not verify or names no user
\* is answered 401, one whose user's role is not permitted 403 (when the guard's
\* lookup of the user did not fail), and those calls leave every table as it was.
C11_GuardLetsOnlyPermittedUsersIn ==
    \A h \in Handlers :
        Guarded(h)
        => /\ HandlerRuns(h)
              => /\ Resolved(h) # {} /\ RoleOk(h)
                 /\ calls[h].user[1] \in Resolved(h)
           /\ (calls[h].pc = "done" /\ Resolved(h) = {})
              => /\ Answer(h).status = 401
                 /\ ~HandlerRuns(h)
                 /\ Snapshot = Pre(h)
           /\ (calls[h].pc = "done" /\ Resolved(h) # {} /\ ~RoleOk(h))
              => /\ Answer(h).status = IF calls[h].err = "storage" THEN 401 ELSE 403
                 /\ ~HandlerRuns(h)
                 /\ Snapshot = Pre(h)

C11_Witness ==
    \E h \in Handlers :
        /\ Done(h, "deletedoc")
        /\ Resolved(h) # {} /\ ~RoleOk(h)
        /\ Answer(h).status = 403
        /\ documents = {1}

\* C18: at every step of a mark-as-read call the notifications are those the call
\* found, but for the read flag of the notification the call names, when the
\* caller owns it, which may have turned from unread to read.
C18_MarkReadTouchesOwnFlagOnly ==
    \A h \in Handlers :
        calls[h].op = "markread"
        => /\ Len(notifications) = Len(Pre(h).notifications)
           /\ \A i \in 1..Len(notifications) :
                LET before == Pre(h).notifications[i]
                    after  == notifications[i]
                IN /\ [after EXCEPT !.is_read = before.is_read] = before
                   /\ before.is_read => after.is_read
                   /\ after.is_read # before.is_read
                      => /\ before.notification_id = calls[h].id
                         /\ \E u \in Resolved(h) : before.user_id = u.user_id

C18_Witness ==
    \E h \in Handlers :
        /\ Done(h, "markread") /\ calls[h].err = "none" /\ Answer(h).status = 200
        /\ \E u \in Resolved(h) : u.user_type = "teacher"
        /\ \E n \in Range(notifications) :
             /\ n.notification_id = calls[h].id
             /\ n.user_id = 1
             /\ ~n.is_read
        /\ \E n \in Range(notifications) : n.is_read

\* A register call that a failure of a statement of its transaction ended: the
\* user insert, the parent or teacher insert, or the commit.
RolledBack(h) ==
    /\ Done(h, "register") /\ calls[h].err = "storage"
    /\ calls[h].at \in {"user", "role", "commit"}

Registered(h) == Done(h, "register") /\ Answer(h).status = 201

C17_RegisteredUsersUnique ==
    /\ \A u1, u2 \in users :
         u1 # u2 => u1.username # u2.username /\ u1.email # u2.email
    /\ \A h \in Handlers :
         (/\ Done(h, "register") /\ calls[h].err = "none"
          /\ {"username", "email"} \subseteq DOMAIN calls[h].body[1]
          /\ Answer(h).status # 400)
         => \A u \in Pre(h).users :
              /\ u.username # Some(calls[h].body[1].username)
              /\ u.email # calls[h].body[1].email
====
